---- MODULE Spec2Model ----
(***************************************************************************)
(* A model of ose-auto-calc (src/main.py): the teaching-hours calculator   *)
(* that walks the VEVENT components of an iCalendar feed, extracts a       *)
(* course code from the description and a category from the title,        *)
(* optionally filters out future events, accumulates the hours per        *)
(* (code, category) and prints a report with HETD-weighted totals.        *)
(*                                                                         *)
(* Conventions.                                                            *)
(*  - A Python str is a sequence of code points (Nat).                     *)
(*  - A datetime is a record [day, sec, us]: day number, second of the     *)
(*    day, microsecond; an aware datetime also carries its UTC offset in   *)
(*    seconds.                                                             *)
(*  - In the main loop hours are exact rationals kept as a number of       *)
(*    seconds (hours * SecondsPerHour); HETD values are kept times         *)
(*    RateDen.  The binary64 arithmetic of the accumulation is modelled    *)
(*    bit-exactly in the float section further down.                       *)
(***************************************************************************)
EXTENDS Integers, Sequences, FiniteSets, TLC

VARIABLES
    args_done,       \* args.done: the --done flag
    utc_now,         \* the true current instant, in UTC (the environment)
    local_offset,    \* UTC offset of the machine's local clock, seconds
    now,             \* now = datetime.now(): naive local wall-clock time
    calendar,        \* the components calendar.walk() yields, in order
    idx,             \* index of the next component of the walk
    hours_by_code,   \* {code: {category: hours}}, keys created on record:
                     \* the exact sums
    hours_float,     \* the same dict with the float values Python holds
    code_names,      \* {code: display name}
    errors,          \* the diagnostics list
    event_count,
    skipped_future,
    pc,              \* "loop", "report", "done", "crashed", or a call site
    report,          \* rows and grand totals printed by the report loop
    arg,             \* argument of a function called on its own
    ret              \* its result

vars == <<args_done, utc_now, local_offset, now, calendar, idx, hours_by_code,
          hours_float, code_names, errors, event_count, skipped_future, pc, report, arg, ret>>

mainvars == <<args_done, utc_now, local_offset, now, calendar, idx,
              hours_by_code, hours_float, code_names, errors, event_count,
              skipped_future, report>>

(***************************************************************************)
(* Bounds of the model.                                                    *)
(***************************************************************************)
MaxEvents == 3       \* components in a calendar
MaxLineLen == 3      \* characters in an enumerated description line
MaxTitleLen == 4     \* characters in an enumerated title
MaxFold == 3         \* events in an enumerated aggregation
MaxFilterEvents == 2 \* components in a calendar of the filter specification

(***************************************************************************)
(* Strings.                                                                *)
(***************************************************************************)
NEWLINE == 10
SPACE == 32
HYPHEN == 45

\* The characters the pattern's [A-Z0-9] accepts.
IsCodeChar(c) == c \in (65..90) \cup (48..57)

\* ASCII whitespace: what str.strip() removes and the pattern's \s accepts.
IsSpace(c) == c \in (9..13) \cup {SPACE}

RECURSIVE Split(_, _)
\* s.split(sep) for a one-character separator: always at least one piece.
Split(s, sep) ==
    IF \A i \in 1..Len(s) : s[i] # sep
    THEN <<s>>
    ELSE LET p == CHOOSE i \in 1..Len(s) :
                      s[i] = sep /\ \A j \in 1..(i - 1) : s[j] # sep
         IN <<SubSeq(s, 1, p - 1)>> \o Split(SubSeq(s, p + 1, Len(s)), sep)

RECURSIVE LStrip(_)
LStrip(s) == IF s # <<>> /\ IsSpace(Head(s)) THEN LStrip(Tail(s)) ELSE s

RECURSIVE RStrip(_)
RStrip(s) ==
    IF s # <<>> /\ IsSpace(s[Len(s)]) THEN RStrip(SubSeq(s, 1, Len(s) - 1)) ELSE s

\* s.strip()
Strip(s) == RStrip(LStrip(s))

RECURSIVE CodeRun(_)
\* Length of the longest prefix of s made of [A-Z0-9].
CodeRun(s) == IF s # <<>> /\ IsCodeChar(Head(s)) THEN 1 + CodeRun(Tail(s)) ELSE 0

RECURSIVE SpaceRun(_)
\* Length of the longest prefix of s made of whitespace.
SpaceRun(s) == IF s # <<>> /\ IsSpace(Head(s)) THEN 1 + SpaceRun(Tail(s)) ELSE 0

\* What the extraction returns: (None, None) is NoCode.
NoCode == [matched |-> FALSE, code |-> <<>>, name |-> <<>>]

\* re.match(r'^([A-Z0-9]+)\s*-\s*(.+)$', line), then group(1) and
\* group(2).strip().  The greedy groups leave one way to match: the longest
\* run of code characters, the whitespace after it, a hyphen, then the
\* whitespace after the hyphen; (.+) takes the rest, and when the rest is
\* only whitespace the matcher backtracks to leave it the last character.
MatchCodeLine(line) ==
    LET k == CodeRun(line)
        afterCode == SubSeq(line, k + 1, Len(line))
        w == SpaceRun(afterCode)
        afterWs == SubSeq(afterCode, w + 1, Len(afterCode))
        afterHyphen == Tail(afterWs)
        w2 == SpaceRun(afterHyphen)
        group2 == IF w2 < Len(afterHyphen)
                  THEN SubSeq(afterHyphen, w2 + 1, Len(afterHyphen))
                  ELSE SubSeq(afterHyphen, Len(afterHyphen), Len(afterHyphen))
    IN IF k = 0 \/ afterWs = <<>> THEN NoCode
       ELSE IF Head(afterWs) # HYPHEN \/ afterHyphen = <<>> THEN NoCode
       ELSE [matched |-> TRUE, code |-> SubSeq(line, 1, k), name |-> Strip(group2)]

\* Number of '-' characters of a line.
HyphenCount(line) == Cardinality({i \in 1..Len(line) : line[i] = HYPHEN})

\* The extraction that scans the lines from index 4 onward for the first
\* line with one or two hyphens.
extract_code_scanning(description) ==
    LET lines == Split(description, NEWLINE)
        ok == {i \in 5..Len(lines) : HyphenCount(lines[i]) \in {1, 2}}
    IN IF description = <<>> \/ Len(lines) < 5 \/ ok = {} THEN NoCode
       ELSE MatchCodeLine(Strip(lines[CHOOSE i \in ok : \A j \in ok : i <= j]))

extract_code_from_description(description) ==
    LET lines == Split(description, NEWLINE)
    IN IF description = <<>> THEN NoCode
       ELSE IF Len(lines) < 5 THEN NoCode
       ELSE MatchCodeLine(Strip(lines[5]))

(***************************************************************************)
(* Category extraction.                                                    *)
(***************************************************************************)
\* The text of each category, as searched in the title.
CategoryText == [TP |-> <<84, 80>>, TD |-> <<84, 68>>, CM |-> <<67, 77>>]

Categories == {"TP", "TD", "CM"}

\* sub in s
Contains(s, sub) ==
    \E i \in 1..(Len(s) - Len(sub) + 1) : SubSeq(s, i, i + Len(sub) - 1) = sub

\* The categories list of the extraction, in the order it is appended to.
FoundCategories(title) ==
    (IF Contains(title, CategoryText.TP) THEN <<"TP">> ELSE <<>>)
    \o (IF Contains(title, CategoryText.TD) THEN <<"TD">> ELSE <<>>)
    \o (IF Contains(title, CategoryText.CM) THEN <<"CM">> ELSE <<>>)

NoCategory == [category |-> "None", multiple |-> FALSE]

\* The extraction with a precedence rule: the first category found wins.
extract_category_first_found(title) ==
    LET categories == FoundCategories(title)
    IN IF title = <<>> \/ Len(categories) = 0 THEN NoCategory
       ELSE [category |-> categories[1], multiple |-> FALSE]

extract_category_from_title(title) ==
    LET categories == FoundCategories(title)
    IN IF title = <<>> THEN NoCategory
       ELSE IF Len(categories) = 0 THEN NoCategory
       ELSE IF Len(categories) = 1
            THEN [category |-> categories[1], multiple |-> FALSE]
            ELSE [category |-> "None", multiple |-> TRUE]

(***************************************************************************)
(* Dates and datetimes.                                                    *)
(***************************************************************************)
SecondsPerHour == 3600
AllDayHours == 24
SecondsPerDay == 24 * 3600
MicrosPerSecond == 1000 * 1000

\* A property the component does not have: component.get(...) is None.
NoValue == [kind |-> "none", day |-> 0, sec |-> 0, us |-> 0, aware |-> FALSE, off |-> 0]

\* A datetime.date.
Date(d) == [kind |-> "date", day |-> d, sec |-> 0, us |-> 0, aware |-> FALSE, off |-> 0]

\* A naive datetime.datetime.
DateTime(d, s, u) ==
    [kind |-> "datetime", day |-> d, sec |-> s, us |-> u, aware |-> FALSE, off |-> 0]

\* An aware datetime.datetime: wall-clock fields and the UTC offset of its zone.
AwareDateTime(d, s, u, o) ==
    [kind |-> "datetime", day |-> d, sec |-> s, us |-> u, aware |-> TRUE, off |-> o]

\* hasattr(v, 'hour'): a datetime has it, a date does not.
HasHour(v) == v.kind = "datetime"

\* The fields of t moved by delta seconds, carried into the day.
ShiftSeconds(t, delta) ==
    LET total == t.sec + delta
    IN [t EXCEPT !.day = t.day + (total \div SecondsPerDay),
                 !.sec = total % SecondsPerDay]

\* The UTC wall-clock fields of an aware datetime.
UtcFields(t) == ShiftSeconds(t, 0 - t.off)

\* Lexicographic order on (day, sec, us).
FieldsGreater(a, b) ==
    \/ a.day > b.day
    \/ a.day = b.day /\ a.sec > b.sec
    \/ a.day = b.day /\ a.sec = b.sec /\ a.us > b.us

\* a > b on datetimes: naive ones compare their fields, aware ones their
\* instants; one of each raises TypeError.
DatetimeGreater(a, b) ==
    IF a.aware # b.aware THEN "TypeError"
    ELSE IF a.aware THEN (IF FieldsGreater(UtcFields(a), UtcFields(b)) THEN "True" ELSE "False")
    ELSE (IF FieldsGreater(a, b) THEN "True" ELSE "False")

\* datetime.combine(d, datetime.min.time()): 00:00:00 of the day.
CombineMinTime(d) == DateTime(d.day, 0, 0)

\* datetime.combine(d, datetime.max.time()): 23:59:59.999999 of the day.
CombineMaxTime(d) == DateTime(d.day, SecondsPerDay - 1, MicrosPerSecond - 1)

\* t.replace(tzinfo=timezone.utc): the same fields, declared to be UTC.
ReplaceTzinfoUtc(t) == AwareDateTime(t.day, t.sec, t.us, 0)

\* t.astimezone(tz) of an aware t: the same instant in the zone of offset o.
AsTimezone(t, o) == [ShiftSeconds(UtcFields(t), o) EXCEPT !.aware = TRUE, !.off = o]

\* datetime.now(): the local wall-clock time, naive.
LocalNow(utc, offset) == [ShiftSeconds(utc, offset) EXCEPT !.aware = FALSE, !.off = 0]

\* now_compare: now itself for a naive end time; for an aware one, now
\* labelled as UTC and converted to the zone of the end time.
NowCompare(nw, end_time) ==
    IF end_time.aware
    THEN AsTimezone(ReplaceTzinfoUtc(nw), end_time.off)
    ELSE nw

\* The end time the filter compares: a date becomes the end of its day.
FilterEndTime(dtend) == IF ~HasHour(dtend) THEN CombineMaxTime(dtend) ELSE dtend

\* The filter's decision for one event: TRUE when it is skipped as future.
SkipsAsFuture(done, nw, dtend) ==
    IF ~done \/ dtend.kind = "none" THEN FALSE
    ELSE LET end_time == FilterEndTime(dtend)
         IN DatetimeGreater(end_time, NowCompare(nw, end_time)) = "True"

(***************************************************************************)
(* Duration.  hours is the duration in hours times SecondsPerHour, exact;  *)
(* the float the division by 3600 yields is FloatDivide(hours, 3600).      *)
(* raised tells that the subtraction raised TypeError.                     *)
(***************************************************************************)
\* (end - start).total_seconds() for event bounds (whole seconds).
SubtractSeconds(end, start) ==
    LET e == IF end.aware THEN UtcFields(end) ELSE end
        s == IF start.aware THEN UtcFields(start) ELSE start
    IN (e.day - s.day) * SecondsPerDay + (e.sec - s.sec)

\* end - start raises TypeError for a date minus a datetime and for a naive
\* and an aware datetime.
SubtractRaises(end, start) == ~HasHour(end) \/ end.aware # start.aware

calculate_duration_hours(dtstart, dtend) ==
    IF dtstart.kind = "none" \/ dtend.kind = "none" THEN [raised |-> FALSE, hours |-> 0]
    ELSE IF HasHour(dtstart)
         THEN IF SubtractRaises(dtend, dtstart) THEN [raised |-> TRUE, hours |-> 0]
              ELSE [raised |-> FALSE, hours |-> SubtractSeconds(dtend, dtstart)]
         ELSE [raised |-> FALSE, hours |-> AllDayHours * SecondsPerHour]

(***************************************************************************)
(* Python floats (IEEE 754 binary64), for the non-negative values the      *)
(* accumulation meets.  A positive float is its 53-bit significand m, most *)
(* significant bit first and set, and the exponent e of its last bit: the  *)
(* value is m * 2^e.  Zero stands for both the int 0 the totals start at   *)
(* and 0.0.                                                                *)
(***************************************************************************)
SignificandBits == 53

FloatZero == [zero |-> TRUE, m |-> <<>>, e |-> 0]

\* n zero bits.
Zeros(n) == [i \in 1..n |-> 0]

\* The bit string without its leading zeros.
DropLeadingZeros(bits) ==
    IF \A i \in 1..Len(bits) : bits[i] = 0 THEN <<>>
    ELSE SubSeq(bits,
                CHOOSE i \in 1..Len(bits) : bits[i] = 1 /\ \A j \in 1..(i - 1) : bits[j] = 0,
                Len(bits))

\* The carry into position i of the sum of two bit strings of length n and
\* a carry into the last position: a lower position generates it, or the
\* incoming carry arrives, and every position in between passes it on.
CarryInto(a, b, carry, i) ==
    IF \/ \E j \in (i + 1)..Len(a) :
             a[j] = 1 /\ b[j] = 1 /\ \A k \in (i + 1)..(j - 1) : a[k] # b[k]
       \/ carry = 1 /\ \A k \in (i + 1)..Len(a) : a[k] # b[k]
    THEN 1 ELSE 0

\* The sum of two bit strings of the same length and a carry, one bit longer.
AddBits(a, b, carry) ==
    [i \in 1..(Len(a) + 1) |->
        IF i = 1 THEN CarryInto(a, b, carry, 0)
        ELSE (a[i - 1] + b[i - 1] + CarryInto(a, b, carry, i - 1)) % 2]

\* The binary digits of a natural number, none for 0.
IntBits(n) ==
    LET len == IF n = 0 THEN 0 ELSE CHOOSE l \in 1..31 : 2^(l - 1) <= n /\ n \div 2^(l - 1) < 2
    IN [i \in 1..len |-> (n \div 2^(len - i)) % 2]

\* The float nearest to bits * 2^e, ties to even: bits starts with a 1.
RoundToFloat(bits, e) ==
    LET len == Len(bits)
        p == SignificandBits
    IN IF len <= p
       THEN [zero |-> FALSE, m |-> bits \o Zeros(p - len), e |-> e - (p - len)]
       ELSE LET keep == SubSeq(bits, 1, p)
                rest == SubSeq(bits, p + 1, len)
                sticky == \E i \in 2..Len(rest) : rest[i] = 1
                up == rest[1] = 1 /\ (sticky \/ keep[p] = 1)
                bumped == AddBits(keep, Zeros(p), 1)
            IN IF ~up THEN [zero |-> FALSE, m |-> keep, e |-> e + (len - p)]
               ELSE IF bumped[1] = 1
               THEN [zero |-> FALSE, m |-> SubSeq(bumped, 1, p), e |-> e + (len - p) + 1]
               ELSE [zero |-> FALSE, m |-> Tail(bumped), e |-> e + (len - p)]

\* The exact sum of two positive floats: its bits and the exponent of the last.
ExactSum(x, y) ==
    LET e == IF x.e < y.e THEN x.e ELSE y.e
        xs == x.m \o Zeros(x.e - e)
        ys == y.m \o Zeros(y.e - e)
        n == IF Len(xs) > Len(ys) THEN Len(xs) ELSE Len(ys)
    IN [bits |-> DropLeadingZeros(AddBits(Zeros(n - Len(xs)) \o xs,
                                          Zeros(n - Len(ys)) \o ys, 0)),
        e |-> e]

\* x + y on floats: the exact sum, rounded.
FloatAdd(x, y) ==
    IF x.zero THEN y
    ELSE IF y.zero THEN x
    ELSE LET sum == ExactSum(x, y)
         IN RoundToFloat(sum.bits, sum.e)

RECURSIVE PowerOfTwoMod(_, _)
\* 2^k modulo d, by squaring.
PowerOfTwoMod(k, d) ==
    IF k = 0 THEN 1 % d
    ELSE LET half == PowerOfTwoMod(k \div 2, d)
         IN (((half * half) % d) * (IF k % 2 = 1 THEN 2 ELSE 1)) % d

\* The k-th binary digit below the point of r / d, for 0 <= r < d: the
\* remainder left after k - 1 digits, doubled, against d.
FractionBit(r, d, k) == IF 2 * ((r * PowerOfTwoMod(k - 1, d)) % d) >= d THEN 1 ELSE 0

\* float(n) / d for naturals n and d > 0: the quotient, rounded.  The
\* expansion is cut one bit below a significand and a last bit tells
\* whether anything is left over.
FloatDivide(n, d) ==
    IF n = 0 THEN FloatZero
    ELSE LET whole == IntBits(n \div d)
             r == n % d
             width == 2 * SignificandBits + 2
             first == IF whole # <<>> THEN 0
                      ELSE CHOOSE k \in 1..width :
                              FractionBit(r, d, k) = 1
                              /\ \A j \in 1..(k - 1) : FractionBit(r, d, j) = 0
             frac == IF whole # <<>> THEN SignificandBits + 1 - Len(whole)
                     ELSE first + SignificandBits
             below == [k \in 1..frac |-> FractionBit(r, d, k)]
             left == (r * PowerOfTwoMod(frac, d)) % d
         IN RoundToFloat(DropLeadingZeros(whole \o below) \o <<IF left = 0 THEN 0 ELSE 1>>,
                         0 - frac - 1)

(***************************************************************************)
(* The event loop of main().                                               *)
(***************************************************************************)
\* A component of the walk: name, SUMMARY, DESCRIPTION, DTSTART, DTEND.
Component(nm, title, description, dtstart, dtend) ==
    [name |-> nm, title |-> title, description |-> description,
     dtstart |-> dtstart, dtend |-> dtend]

\* The state the loop carries from one component to the next.
LoopState(h, f, n, e, ec, sf) ==
    [hours_by_code |-> h, hours_float |-> f, code_names |-> n, errors |-> e,
     event_count |-> ec, skipped_future |-> sf, raised |-> FALSE]

\* defaultdict(lambda: {'TP': 0, 'TD': 0, 'CM': 0}): the value a missing
\* key gets when it is first read.
DefaultHours == [c \in Categories |-> 0]

\* m[k] = v on a dict kept as a function.
DictSet(m, k, v) == [x \in (DOMAIN m) \cup {k} |-> IF x = k THEN v ELSE m[x]]

\* hours_by_code[code][category] = duration: the total is overwritten.
AddHoursOverwrite(h, code, category, duration) ==
    LET old == IF code \in DOMAIN h THEN h[code] ELSE DefaultHours
    IN DictSet(h, code, [old EXCEPT ![category] = duration])

\* hours_by_code[code][category] += duration
AddHours(h, code, category, duration) ==
    LET old == IF code \in DOMAIN h THEN h[code] ELSE DefaultHours
    IN DictSet(h, code, [old EXCEPT ![category] = old[category] + duration])

\* The float totals a missing key gets: the int 0 of the defaultdict.
DefaultHoursFloat == [c \in Categories |-> FloatZero]

\* hours_by_code[code][category] += duration, on the float values.
AddHoursFloat(h, code, category, duration) ==
    LET old == IF code \in DOMAIN h THEN h[code] ELSE DefaultHoursFloat
    IN DictSet(h, code, [old EXCEPT ![category] = FloatAdd(old[category], duration)])

\* if code not in code_names and display_name: code_names[code] = display_name
StoreName(names, code, display_name) ==
    IF code \notin DOMAIN names /\ display_name # <<>>
    THEN DictSet(names, code, display_name)
    ELSE names

\* The diagnostic an event gets: its kind and the title it quotes.
Diagnostic(kind, title) == [kind |-> kind, title |-> title]

\* The diagnostics of an event when a code failure does not end the
\* iteration: the category is examined as well.
EventDiagnosticsNoContinue(found, cat, title) ==
    (IF ~found.matched THEN <<Diagnostic("nocode", title)>> ELSE <<>>)
    \o (IF cat.multiple THEN <<Diagnostic("multiple", title)>>
        ELSE IF cat.category = "None" THEN <<Diagnostic("nocategory", title)>>
        ELSE <<>>)

\* The diagnostics an event appends before its `continue`: the code is
\* examined first, then an ambiguous category, then a missing one.
EventDiagnostics(found, cat, title) ==
    IF ~found.matched THEN <<Diagnostic("nocode", title)>>
    ELSE IF cat.multiple THEN <<Diagnostic("multiple", title)>>
    ELSE IF cat.category = "None" THEN <<Diagnostic("nocategory", title)>>
    ELSE <<>>

\* One iteration of the loop on a VEVENT that passed the filter: count it,
\* extract the code, store the display name, extract the category, compute
\* the duration and add it.
Classify(st, comp) ==
    LET found == extract_code_from_description(comp.description)
        cat == extract_category_from_title(comp.title)
        dur == calculate_duration_hours(comp.dtstart, comp.dtend)
        diags == EventDiagnostics(found, cat, comp.title)
        counted == [st EXCEPT !.event_count = st.event_count + 1]
        named == [counted EXCEPT
                    !.code_names = StoreName(st.code_names, found.code, found.name)]
    IN IF ~found.matched
       THEN [counted EXCEPT !.errors = st.errors \o diags]
       ELSE IF diags # <<>>
       THEN [named EXCEPT !.errors = st.errors \o diags]
       ELSE IF dur.raised
       THEN [named EXCEPT !.raised = TRUE]
       ELSE [named EXCEPT
               !.hours_by_code = AddHours(st.hours_by_code, found.code, cat.category, dur.hours),
               !.hours_float = AddHoursFloat(st.hours_float, found.code, cat.category,
                                             FloatDivide(dur.hours, SecondsPerHour))]

\* One iteration of the loop on any component.
Iteration(st, comp, done, nw) ==
    IF comp.name # "VEVENT" THEN st
    ELSE IF SkipsAsFuture(done, nw, comp.dtend)
    THEN [st EXCEPT !.skipped_future = st.skipped_future + 1]
    ELSE Classify(st, comp)

\* The loop state held in the variables.
Current ==
    LoopState(hours_by_code, hours_float, code_names, errors, event_count, skipped_future)

\* for component in calendar.walk(): one component.  An uncaught TypeError
\* ends the program.
ProcessEvent ==
    /\ pc = "loop"
    /\ idx <= Len(calendar)
    /\ LET st == Iteration(Current, calendar[idx], args_done, now)
       IN /\ hours_by_code' = st.hours_by_code
          /\ hours_float' = st.hours_float
          /\ code_names' = st.code_names
          /\ errors' = st.errors
          /\ event_count' = st.event_count
          /\ skipped_future' = st.skipped_future
          /\ pc' = IF st.raised THEN "crashed" ELSE "loop"
          /\ idx' = IF st.raised THEN idx ELSE idx + 1
    /\ UNCHANGED <<args_done, utc_now, local_offset, now, calendar, report, arg, ret>>

(***************************************************************************)
(* The report.  HETD_RATES = {'TP': 2/3, 'TD': 1, 'CM': 1.5} over the      *)
(* common denominator RateDen; total_hetd and grand_total_hetd are kept    *)
(* times RateDen.                                                          *)
(***************************************************************************)
RateDen == 6
HETD_RATES == [TP |-> 4, TD |-> 6, CM |-> 9]

\* "Unknown"
UnknownName == <<85, 110, 107, 110, 111, 119, 110>>

RECURSIVE StrLess(_, _)
\* a < b on str: code point by code point, a proper prefix first.
StrLess(a, b) ==
    IF b = <<>> THEN FALSE
    ELSE IF a = <<>> THEN TRUE
    ELSE IF Head(a) # Head(b) THEN Head(a) < Head(b)
    ELSE StrLess(Tail(a), Tail(b))

RECURSIVE InsertionOrder(_)
\* The keys with the greatest first.
InsertionOrder(keys) ==
    IF keys = {} THEN <<>>
    ELSE LET m == CHOOSE k \in keys : \A o \in keys \ {k} : StrLess(o, k)
         IN <<m>> \o InsertionOrder(keys \ {m})

RECURSIVE Sorted(_)
\* sorted(keys) of a set of distinct str.
Sorted(keys) ==
    IF keys = {} THEN <<>>
    ELSE LET m == CHOOSE k \in keys : \A o \in keys \ {k} : StrLess(k, o)
         IN <<m>> \o Sorted(keys \ {m})

\* total_hetd with the TP rate taken as 1.
RowHetdFlat(cm, td, tp) == cm * HETD_RATES.CM + td * HETD_RATES.TD + tp * RateDen

\* total_hetd of a row, times RateDen.
RowHetd(cm, td, tp) == cm * HETD_RATES.CM + td * HETD_RATES.TD + tp * HETD_RATES.TP

\* The row printed for a code.
ReportRow(h, names, code) ==
    LET cm == h[code]["CM"]
        td == h[code]["TD"]
        tp == h[code]["TP"]
    IN [code |-> code,
        display_name |-> IF code \in DOMAIN names THEN names[code] ELSE UnknownName,
        cm |-> cm, td |-> td, tp |-> tp,
        total_hours |-> cm + td + tp,
        total_hetd |-> RowHetd(cm, td, tp)]

NoReport ==
    [rows |-> <<>>, grand_total_cm |-> 0, grand_total_td |-> 0, grand_total_tp |-> 0,
     grand_total_hours |-> 0, grand_total_hetd |-> 0]

RECURSIVE ReportLoop(_, _, _, _)
\* for code in sorted(...): the rows so far and the running grand totals.
ReportLoop(acc, h, names, codes) ==
    IF codes = <<>> THEN acc
    ELSE LET row == ReportRow(h, names, Head(codes))
         IN ReportLoop([rows |-> Append(acc.rows, row),
                        grand_total_cm |-> acc.grand_total_cm + row.cm,
                        grand_total_td |-> acc.grand_total_td + row.td,
                        grand_total_tp |-> acc.grand_total_tp + row.tp,
                        grand_total_hours |-> acc.grand_total_hours + row.total_hours,
                        grand_total_hetd |-> acc.grand_total_hetd + row.total_hetd],
                       h, names, Tail(codes))

\* The rows in the reverse of the sorted order.
RowOrderDescending(h) == InsertionOrder(DOMAIN h)

\* The order the rows are printed in.
RowOrder(h) == Sorted(DOMAIN h)

\* After the loop: the rows in sorted code order and the grand totals.
Report ==
    /\ pc = "loop"
    /\ idx > Len(calendar)
    /\ report' = ReportLoop(NoReport, hours_by_code, code_names, RowOrder(hours_by_code))
    /\ pc' = "done"
    /\ UNCHANGED <<args_done, utc_now, local_offset, now, calendar, idx, hours_by_code,
                   hours_float, code_names, errors, event_count, skipped_future, arg, ret>>

(***************************************************************************)
(* Inputs.                                                                 *)
(***************************************************************************)
RECURSIVE SeqsUpTo(_, _)
\* The sequences of at most n elements of S.
SeqsUpTo(S, n) ==
    IF n = 0 THEN {<<>>}
    ELSE LET shorter == SeqsUpTo(S, n - 1)
         IN shorter \cup {Append(q, x) : q \in {r \in shorter : Len(r) = n - 1}, x \in S}

RECURSIVE Join(_)
\* '\n'.join(lines)
Join(lines) ==
    IF lines = <<>> THEN <<>>
    ELSE IF Len(lines) = 1 THEN lines[1]
    ELSE lines[1] \o <<NEWLINE>> \o Join(Tail(lines))

\* Seconds of the day at h:m.
Clock(h, m) == h * SecondsPerHour + m * 60

MAT200 == <<77, 65, 84, 50, 48, 48>>
PHY100 == <<80, 72, 89, 49, 48, 48>>

\* A description whose fifth line reads "<code> - <name>".
Desc(code, name) == Join(<<<<>>, <<>>, <<>>, <<>>, code \o <<SPACE, HYPHEN, SPACE>> \o name>>)

TitleCM == <<67, 77>>
TitleTD == <<84, 68>>
TitleTP == <<84, 80>>
TitleTPTD == <<84, 80, 47, 84, 68>>
TitleNone == <<120>>

\* The day `now` falls on.
Today == 10

\* The components of the calendars of the main specification.
Components ==
    { Component("VEVENT", TitleCM, Desc(MAT200, <<97>>),
                DateTime(Today, Clock(9, 0), 0), DateTime(Today, Clock(10, 30), 0)),
      Component("VEVENT", TitleTD, Desc(MAT200, <<98>>),
                AwareDateTime(Today, Clock(14, 0), 0, 3600),
                AwareDateTime(Today, Clock(15, 0), 0, 3600)),
      Component("VEVENT", TitleTP, Desc(PHY100, <<99>>),
                DateTime(Today - 1, Clock(8, 0), 0), DateTime(Today - 1, Clock(11, 0), 0)),
      Component("VEVENT", TitleNone, Desc(MAT200, <<100>>),
                DateTime(Today - 1, Clock(8, 0), 0), DateTime(Today - 1, Clock(9, 0), 0)),
      Component("VEVENT", TitleTPTD, Desc(<<65, 48>>, <<101>>),
                DateTime(Today - 1, Clock(8, 0), 0), DateTime(Today - 1, Clock(9, 0), 0)),
      Component("VEVENT", TitleNone, <<120>>,
                DateTime(Today - 1, Clock(8, 0), 0), DateTime(Today - 1, Clock(9, 0), 0)),
      Component("VEVENT", TitleTP, Desc(<<65, 48>>, <<101>>), Date(Today - 2), Date(Today - 1)),
      Component("VEVENT", TitleTD, Desc(PHY100, <<99>>),
                DateTime(Today - 1, Clock(8, 0), 0), Date(Today - 1)),
      Component("VEVENT", TitleCM, Desc(<<65>>, <<102>>),
                DateTime(Today + 1, Clock(8, 0), 0), NoValue),
      Component("VCALENDAR", <<>>, <<>>, NoValue, NoValue) }

\* The variables of the event loop before its first iteration.
LoopStart ==
    /\ idx = 1
    /\ hours_by_code = <<>>
    /\ hours_float = <<>>
    /\ code_names = <<>>
    /\ errors = <<>>
    /\ event_count = 0
    /\ skipped_future = 0
    /\ report = NoReport

Init ==
    /\ args_done \in BOOLEAN
    /\ utc_now = DateTime(Today, Clock(12, 0), 0)
    /\ local_offset = 0
    /\ now = LocalNow(utc_now, local_offset)
    /\ calendar \in SeqsUpTo(Components, MaxEvents)
    /\ LoopStart
    /\ pc = "loop"
    /\ arg = <<>>
    /\ ret = <<>>

Next == ProcessEvent \/ Report

Spec == Init /\ [][Next]_vars

(***************************************************************************)
(* Properties of the event loop and the report.                            *)
(***************************************************************************)
\* The component is an event the loop classifies: a VEVENT the filter keeps.
Passes(comp) == comp.name = "VEVENT" /\ ~SkipsAsFuture(args_done, now, comp.dtend)

CodeOf(comp) == extract_code_from_description(comp.description)

CategoryOf(comp) == extract_category_from_title(comp.title)

FailsClassification(comp) ==
    \/ ~CodeOf(comp).matched
    \/ CategoryOf(comp).multiple
    \/ CategoryOf(comp).category = "None"

\* The components before idx that were classified and failed, by position.
FailedSoFar == {i \in 1..(idx - 1) : Passes(calendar[i]) /\ FailsClassification(calendar[i])}

\* The position of the k-th failed event.
KthFailed(k) == CHOOSE i \in FailedSoFar : Cardinality({j \in FailedSoFar : j <= i}) = k

\* C6: every classified event that fails appends exactly one diagnostic and
\* every other event none, so the diagnostics are, in encounter order, one
\* per failed event so far; the diagnostic of an event whose code cannot be
\* extracted is the code diagnostic, never a category one.
C6_OneDiagnosticPerFailure ==
    /\ Len(errors) = Cardinality(FailedSoFar)
    /\ \A k \in 1..Len(errors) :
          LET comp == calendar[KthFailed(k)]
          IN /\ errors[k].title = comp.title
             /\ (errors[k].kind = "nocode") = ~CodeOf(comp).matched
             /\ (errors[k].kind = "multiple") =
                    (CodeOf(comp).matched /\ CategoryOf(comp).multiple)
             /\ (errors[k].kind = "nocategory") =
                    (CodeOf(comp).matched /\ ~CategoryOf(comp).multiple)

\* A run that recorded an event after a category failure and a code
\* failure of an event that has no category either.
C6_Witness ==
    /\ pc = "done"
    /\ hours_by_code # <<>>
    /\ Len(errors) = 2
    /\ errors[1].kind = "multiple"
    /\ errors[2].kind = "nocode"
    /\ \E i \in 1..Len(calendar) :
          ~CodeOf(calendar[i]).matched /\ CategoryOf(calendar[i]).category = "None"

\* C7: processing an event that fails classification leaves the accumulated
\* hours and the stored display names unchanged.
C7_FailedEventLeavesAggregate ==
    [][(/\ pc = "loop"
        /\ idx <= Len(calendar)
        /\ Passes(calendar[idx])
        /\ FailsClassification(calendar[idx]))
       => (hours_by_code' = hours_by_code /\ code_names' = code_names)]_vars

RECURSIVE SumColumn(_, _)
\* The sum of one column over the rows.
SumColumn(rows, column) ==
    IF rows = <<>> THEN 0 ELSE Head(rows)[column] + SumColumn(Tail(rows), column)

\* The calendar of the end-to-end example: (MAT200, CM, 1.5 h),
\* (MAT200, TD, 1 h), (PHY100, TP, 3 h).
ExampleCalendar ==
    << Component("VEVENT", TitleCM, Desc(MAT200, <<97>>),
                 DateTime(Today, Clock(9, 0), 0), DateTime(Today, Clock(10, 30), 0)),
       Component("VEVENT", TitleTD, Desc(MAT200, <<98>>),
                 AwareDateTime(Today, Clock(14, 0), 0, 3600),
                 AwareDateTime(Today, Clock(15, 0), 0, 3600)),
       Component("VEVENT", TitleTP, Desc(PHY100, <<99>>),
                 DateTime(Today - 1, Clock(8, 0), 0), DateTime(Today - 1, Clock(11, 0), 0)) >>

\* C8: in the final report every row has totalHours = cm + td + tp and
\* totalHETD = 1.5 cm + td + (2/3) tp, every grand total is the sum of its
\* column over the rows, and the example gives CM 1.5, TD 1, TP 3, total
\* 5.5 and HETD 5.25 (hours are kept times 3600, HETD times 3600 RateDen).
C8_RowsAndGrandTotals ==
    pc = "done" =>
      /\ \A k \in 1..Len(report.rows) :
            LET row == report.rows[k]
            IN /\ row.cm = hours_by_code[row.code]["CM"]
               /\ row.td = hours_by_code[row.code]["TD"]
               /\ row.tp = hours_by_code[row.code]["TP"]
               /\ row.total_hours = row.cm + row.td + row.tp
               /\ 2 * 3 * row.total_hetd = RateDen * (3 * 3 * row.cm + 2 * 3 * row.td + 2 * 2 * row.tp)
      /\ report.grand_total_cm = SumColumn(report.rows, "cm")
      /\ report.grand_total_td = SumColumn(report.rows, "td")
      /\ report.grand_total_tp = SumColumn(report.rows, "tp")
      /\ report.grand_total_hours = SumColumn(report.rows, "total_hours")
      /\ report.grand_total_hetd = SumColumn(report.rows, "total_hetd")
      /\ (calendar = ExampleCalendar /\ ~args_done) =>
            /\ 2 * report.grand_total_cm = 3 * SecondsPerHour
            /\ report.grand_total_td = SecondsPerHour
            /\ report.grand_total_tp = 3 * SecondsPerHour
            /\ 2 * report.grand_total_hours = 11 * SecondsPerHour
            /\ 4 * report.grand_total_hetd = 21 * SecondsPerHour * RateDen

\* The example calendar, reported: two rows, MAT200 with HETD 3.25 first.
C8_Witness ==
    /\ pc = "done"
    /\ calendar = ExampleCalendar
    /\ ~args_done
    /\ Len(report.rows) = 2
    /\ report.rows[1].code = MAT200
    /\ 4 * report.rows[1].total_hetd = 13 * SecondsPerHour * RateDen
    /\ report.rows[2].total_hetd = 2 * SecondsPerHour * RateDen

\* The codes of the events recorded among the first n components.
RecordedCodes(n) ==
    {CodeOf(calendar[i]).code :
        i \in {j \in 1..n : Passes(calendar[j]) /\ ~FailsClassification(calendar[j])}}

\* a sorts strictly before b: at the first position where they differ a
\* has the smaller code point, or a is a proper prefix of b.
LexBefore(a, b) ==
    \E k \in 1..(Len(b)) :
       /\ k <= Len(a) + 1
       /\ \A j \in 1..(k - 1) : a[j] = b[j]
       /\ (k = Len(a) + 1 \/ a[k] < b[k])

\* C9: the codes with a row in the final report are exactly the codes of
\* the recorded events, one row per code, in ascending lexical order of the
\* code; while the loop runs the aggregate holds exactly the codes recorded
\* so far.
C9_RowsAreRecordedCodesSorted ==
    /\ pc = "loop" => DOMAIN hours_by_code = RecordedCodes(idx - 1)
    /\ pc = "done" =>
         /\ {report.rows[k].code : k \in 1..Len(report.rows)} = RecordedCodes(Len(calendar))
         /\ \A i, j \in 1..Len(report.rows) :
               i < j => LexBefore(report.rows[i].code, report.rows[j].code)

\* A report of two rows, the first code a proper prefix of the second,
\* from a calendar that also held an event that was not recorded.
C9_Witness ==
    /\ pc = "done"
    /\ Len(report.rows) = 2
    /\ report.rows[1].code = <<65>>
    /\ report.rows[2].code = <<65, 48>>
    /\ \E i \in 1..Len(calendar) : Passes(calendar[i]) /\ FailsClassification(calendar[i])

(***************************************************************************)
(* The past-only filter: runs with --done over calendars of events that    *)
(* differ in their DTEND, at several instants, by machines in several      *)
(* zones.                                                                  *)
(***************************************************************************)
FilterEnds ==
    { NoValue, Date(Today - 1), Date(Today), Date(Today + 1),
      DateTime(Today, Clock(12, 0), 0),
      DateTime(Today, SecondsPerDay - 1, 0),
      AwareDateTime(Today, Clock(12, 30), 0, 3600),
      AwareDateTime(Today, Clock(12, 0), 0, 0),
      AwareDateTime(Today, Clock(9, 0), 0, 0 - 5 * SecondsPerHour) }

FilterComponents ==
    {Component("VEVENT", TitleCM, Desc(MAT200, <<97>>), Date(Today - 3), e) : e \in FilterEnds}

InitFilter ==
    /\ args_done = TRUE
    /\ utc_now \in { DateTime(Today, 0, 0),
                     DateTime(Today, Clock(12, 0), 0),
                     DateTime(Today, SecondsPerDay - 1, 0),
                     DateTime(Today, SecondsPerDay - 1, MicrosPerSecond - 1) }
    /\ local_offset \in {0 - 5 * SecondsPerHour, 0, SecondsPerHour}
    /\ now = LocalNow(utc_now, local_offset)
    /\ calendar \in SeqsUpTo(FilterComponents, MaxFilterEvents)
    /\ LoopStart
    /\ pc = "loop"
    /\ arg = <<>>
    /\ ret = <<>>

SpecFilter == InitFilter /\ [][Next]_vars

\* The loop is about to examine, in past-only mode, an event with a DTEND.
AboutToFilter ==
    /\ pc = "loop"
    /\ idx <= Len(calendar)
    /\ args_done
    /\ calendar[idx].name = "VEVENT"

\* The step retains the event for classification.
Retained == skipped_future' = skipped_future /\ event_count' = event_count + 1

\* The step counts the event as a skipped future event.
Skipped == skipped_future' = skipped_future + 1 /\ event_count' = event_count

\* C1 as stated: in past-only mode an event with a date-only DTEND of
\* yesterday or today is retained, whatever the time of day of now.
C1_DateOnlyTodayRetained ==
    [][(/\ AboutToFilter
        /\ calendar[idx].dtend.kind = "date"
        /\ calendar[idx].dtend.day \in {now.day - 1, now.day})
       => Retained]_vars

\* C1, amended: a date-only DTEND stands for 23:59:59.999999 of its day, so
\* the event is retained when its end date is before today, or is today and
\* now is that last microsecond of the day; otherwise it is counted as a
\* skipped future event.
C1_DateOnlyRetainedOnceDayOver ==
    [][(AboutToFilter /\ calendar[idx].dtend.kind = "date")
       => LET end == calendar[idx].dtend
              over == \/ end.day < now.day
                      \/ /\ end.day = now.day
                         /\ now.sec = SecondsPerDay - 1
                         /\ now.us = MicrosPerSecond - 1
          IN IF over THEN Retained ELSE Skipped]_vars

\* A date-only event ending today was examined at noon and skipped as future.
C1_Witness ==
    /\ args_done
    /\ idx = 2
    /\ calendar[1].dtend = Date(now.day)
    /\ now.sec = Clock(12, 0)
    /\ skipped_future = 1
    /\ event_count = 0

\* C4: in past-only mode an event whose DTEND is an aware timestamp is
\* retained iff its end instant is at or before the current instant,
\* whatever the zone of the event and the zone of the local clock.
C4_AwareEndComparedToCurrentInstant ==
    [][(AboutToFilter /\ calendar[idx].dtend.kind = "datetime" /\ calendar[idx].dtend.aware)
       => IF FieldsGreater(UtcFields(calendar[idx].dtend), utc_now)
          THEN Skipped ELSE Retained]_vars

(***************************************************************************)
(* The extraction and duration functions called on their own.              *)
(***************************************************************************)
\* The loop variables of a run that only calls a function.
NoLoop ==
    /\ args_done = FALSE
    /\ utc_now = DateTime(Today, 0, 0)
    /\ local_offset = 0
    /\ now = LocalNow(utc_now, local_offset)
    /\ calendar = <<>>
    /\ LoopStart

\* The characters of the enumerated description lines: A - space a.
LineAlphabet == {65, HYPHEN, SPACE, 97}

\* Descriptions of one to five lines whose last line varies, and of six
\* lines whose last two lines vary.
Descriptions ==
    LET lines == SeqsUpTo(LineAlphabet, MaxLineLen)
        empties == SeqsUpTo({<<>>}, 4)
    IN {Join(Append(pre, l)) : pre \in empties, l \in lines}
       \cup {Join(<<<<>>, <<>>, <<>>, <<>>, l4, l5>>) : l4 \in lines, l5 \in lines}

InitExtractCode ==
    /\ NoLoop
    /\ pc = "call"
    /\ arg \in Descriptions
    /\ ret = NoCode

CallExtractCode ==
    /\ pc = "call"
    /\ ret' = extract_code_from_description(arg)
    /\ pc' = "returned"
    /\ UNCHANGED <<mainvars, arg>>

SpecExtractCode == InitExtractCode /\ [][CallExtractCode]_vars

\* The lines of the description from index 4 onward with one or two hyphens.
PlausibleLines(lines) == {i \in 5..Len(lines) : HyphenCount(lines[i]) \in {1, 2}}

\* C2 as stated: the first line from index 4 onward with one or two hyphens
\* is the one matched, and without such a line the result is absent.
C2_FirstPlausibleLineUsed ==
    pc = "returned" =>
      LET lines == Split(arg, NEWLINE)
          ok == PlausibleLines(lines)
      IN IF ok = {} THEN ret = NoCode
         ELSE ret = MatchCodeLine(Strip(lines[CHOOSE i \in ok : \A j \in ok : i <= j]))

\* The line reads: k code characters, whitespace, a hyphen at position h,
\* and at least one more character.
ReadsAsCodeLine(line, k, h) ==
    /\ 1 <= k /\ k < h /\ h < Len(line)
    /\ \A i \in 1..k : IsCodeChar(line[i])
    /\ \A i \in (k + 1)..(h - 1) : IsSpace(line[i])
    /\ line[h] = HYPHEN

\* C2, amended: only the line at index 4 is used.  With fewer than five
\* lines the result is absent; otherwise the result is the code and the
\* trimmed name of the trimmed line at index 4 when that line reads
\* CODE - name, whatever its number of hyphens, and absent when it does
\* not, whatever the later lines hold.
C2_OnlyFifthLineUsed ==
    pc = "returned" =>
      LET lines == Split(arg, NEWLINE)
      IN IF Len(lines) < 5 THEN ret = NoCode
         ELSE LET line == Strip(lines[5])
                  reads == {kh \in (1..Len(line)) \X (1..Len(line)) :
                              ReadsAsCodeLine(line, kh[1], kh[2])}
              IN IF reads = {} THEN ret = NoCode
                 ELSE \E kh \in reads :
                         /\ ret.matched
                         /\ ret.code = SubSeq(line, 1, kh[1])
                         /\ ret.name = Strip(SubSeq(line, kh[2] + 1, Len(line)))

\* Line 4 has no hyphen, line 5 has one and reads CODE - name: absent.
C2_Witness ==
    /\ pc = "returned"
    /\ LET lines == Split(arg, NEWLINE)
       IN /\ Len(lines) = 6
          /\ HyphenCount(lines[5]) = 0
          /\ HyphenCount(lines[6]) = 1
          /\ MatchCodeLine(Strip(lines[6])).matched
    /\ ret = NoCode

\* The characters of the enumerated titles: T P D C M space.
TitleAlphabet == {84, 80, 68, 67, 77, SPACE}

InitCategory ==
    /\ NoLoop
    /\ pc = "call"
    /\ arg \in SeqsUpTo(TitleAlphabet, MaxTitleLen)
    /\ ret = NoCategory

CallExtractCategory ==
    /\ pc = "call"
    /\ ret' = extract_category_from_title(arg)
    /\ pc' = "returned"
    /\ UNCHANGED <<mainvars, arg>>

SpecCategory == InitCategory /\ [][CallExtractCategory]_vars

\* The categories whose two letters occur side by side in the title.
Occurring(title) ==
    {c \in Categories :
        \E i \in 1..(Len(title) - 1) :
           title[i] = CategoryText[c][1] /\ title[i + 1] = CategoryText[c][2]}

\* C5: the result is (the category, not ambiguous) when exactly one of TP,
\* TD, CM occurs in the title, (absent, ambiguous) when two or more occur,
\* and (absent, not ambiguous) when none occurs.
C5_CategoryByCount ==
    pc = "returned" =>
      LET occ == Occurring(arg)
      IN /\ Cardinality(occ) = 0 => ret = [category |-> "None", multiple |-> FALSE]
         /\ Cardinality(occ) = 1 => ret.category \in occ /\ ~ret.multiple
         /\ Cardinality(occ) >= 2 => ret = [category |-> "None", multiple |-> TRUE]

\* A title holding both TP and TD was reported ambiguous.
C5_Witness ==
    /\ pc = "returned"
    /\ {"TP", "TD"} \subseteq Occurring(arg)
    /\ ret.multiple
    /\ ret.category = "None"

\* The bounds of the enumerated events: absent, dates, naive and aware
\* datetimes.
DurationBounds ==
    { NoValue, Date(Today), Date(Today + 2),
      DateTime(Today, Clock(9, 0), 0), DateTime(Today, Clock(10, 30), 0),
      DateTime(Today + 1, Clock(0, 0), 0), DateTime(Today - 1, Clock(23, 0), 0),
      AwareDateTime(Today, Clock(9, 0), 0, 0),
      AwareDateTime(Today, Clock(12, 0), 0, 2 * SecondsPerHour),
      AwareDateTime(Today, Clock(4, 0), 0, 0 - 5 * SecondsPerHour) }

InitDuration ==
    /\ NoLoop
    /\ pc = "call"
    /\ arg \in DurationBounds \X DurationBounds
    /\ ret = [raised |-> FALSE, hours |-> 0]

CallDuration ==
    /\ pc = "call"
    /\ ret' = calculate_duration_hours(arg[1], arg[2])
    /\ pc' = "returned"
    /\ UNCHANGED <<mainvars, arg>>

SpecDuration == InitDuration /\ [][CallDuration]_vars

\* C3: the duration never fails; it is 0 when a bound is absent, 24 h when
\* either bound lacks a time of day, and (end - start) / 3600 s when both
\* bounds carry one (hours are kept times 3600).
C3_DurationNeverFails ==
    pc = "returned" =>
      LET start == arg[1]
          end == arg[2]
      IN /\ ~ret.raised
         /\ IF start.kind = "none" \/ end.kind = "none" THEN ret.hours = 0
            ELSE IF ~HasHour(start) \/ ~HasHour(end)
            THEN ret.hours = AllDayHours * SecondsPerHour
            ELSE ret.hours = SubtractSeconds(end, start)

(***************************************************************************)
(* The aggregation: calendars of events that all classify, of one or two   *)
(* codes, with durations that are (30, 15 minutes) and are not (6, 24      *)
(* minutes) binary fractions of an hour.                                   *)
(***************************************************************************)
\* A timed event of the given length in minutes.
TimedEvent(title, code, name, minutes) ==
    Component("VEVENT", title, Desc(code, name),
              DateTime(Today, Clock(9, 0), 0), DateTime(Today, Clock(9, minutes), 0))

FoldComponents ==
    { TimedEvent(TitleTP, PHY100, <<99>>, 6),
      TimedEvent(TitleTP, PHY100, <<99>>, 24),
      TimedEvent(TitleTD, MAT200, <<97>>, 30),
      TimedEvent(TitleTD, MAT200, <<98>>, 15) }

InitAggregate ==
    /\ args_done = FALSE
    /\ utc_now = DateTime(Today, Clock(12, 0), 0)
    /\ local_offset = 0
    /\ now = LocalNow(utc_now, local_offset)
    /\ calendar \in SeqsUpTo(FoldComponents, MaxFold)
    /\ LoopStart
    /\ pc = "loop"
    /\ arg = <<>>
    /\ ret = <<>>

SpecAggregate == InitAggregate /\ [][Next]_vars

RECURSIVE RunLoop(_, _, _, _)
\* The loop state after the components of cal, from st.
RunLoop(st, cal, done, nw) ==
    IF cal = <<>> \/ st.raised THEN st
    ELSE RunLoop(Iteration(st, Head(cal), done, nw), Tail(cal), done, nw)

\* The calendar with its components in the order p.
Permuted(p) == [i \in 1..Len(calendar) |-> calendar[p[i]]]

\* The loop state the calendar gives when processed in the order p.
After(p) == RunLoop(LoopState(<<>>, <<>>, <<>>, <<>>, 0, 0), Permuted(p), args_done, now)

\* The grand totals of the report the loop state gives.
TotalsOf(st) ==
    [ReportLoop(NoReport, st.hours_by_code, st.code_names, RowOrder(st.hours_by_code))
        EXCEPT !.rows = <<>>]

\* Two events of the calendar give the code different names.
ConflictingNames(code) ==
    \E i, j \in 1..Len(calendar) :
       /\ CodeOf(calendar[i]).code = code
       /\ CodeOf(calendar[j]).code = code
       /\ CodeOf(calendar[i]).name # CodeOf(calendar[j]).name

\* The display names of two runs differ only for codes with conflicting names.
NamesAgree(names, other) ==
    /\ DOMAIN names = DOMAIN other
    /\ \A code \in DOMAIN names : names[code] # other[code] => ConflictingNames(code)

\* Every duration of the calendar is a whole number of quarter-hours.
QuarterHours ==
    \A i \in 1..Len(calendar) :
       calculate_duration_hours(calendar[i].dtstart, calendar[i].dtend).hours
          % (SecondsPerHour \div 4) = 0

\* C10 as stated: every permutation of the events yields identical
\* accumulated hours, as the program holds them, for every (code, category),
\* and display names that differ only for codes with conflicting names.
C10_OrderIndependent ==
    pc = "done" =>
      \A p \in Permutations(1..Len(calendar)) :
         /\ After(p).hours_float = hours_float
         /\ NamesAgree(code_names, After(p).code_names)

\* C10, amended: every permutation yields the same exact sum of hours for
\* every (code, category) and the same exact grand totals; the float totals
\* the program holds are identical too when every duration is a whole
\* number of quarter-hours; display names differ only for codes with
\* conflicting names, the name kept being that of the code's first event.
C10_OrderIndependentUpToRounding ==
    pc = "done" =>
      /\ \A p \in Permutations(1..Len(calendar)) :
            /\ After(p).hours_by_code = hours_by_code
            /\ TotalsOf(After(p)) = [report EXCEPT !.rows = <<>>]
            /\ QuarterHours => After(p).hours_float = hours_float
            /\ NamesAgree(code_names, After(p).code_names)
      /\ \A code \in DOMAIN code_names :
            \E i \in 1..Len(calendar) :
               /\ CodeOf(calendar[i]) = [matched |-> TRUE, code |-> code, name |-> code_names[code]]
               /\ \A j \in 1..(i - 1) : CodeOf(calendar[j]).code # code

\* Three quarter-hour events that give their code two names were
\* aggregated, and another order gives the code the other name.
C10_Witness ==
    /\ pc = "done"
    /\ Len(calendar) = 3
    /\ QuarterHours
    /\ DOMAIN hours_float = {MAT200}
    /\ hours_by_code[MAT200]["TD"] = SecondsPerHour
    /\ hours_float[MAT200]["TD"] = FloatDivide(SecondsPerHour, SecondsPerHour)
    /\ \E p \in Permutations(1..Len(calendar)) :
          After(p).code_names[MAT200] # code_names[MAT200]

====
